---- MODULE Spec2Model ----
(***************************************************************************)
(* A model of radicli: the registration decorator (Radicli._command), the  *)
(* type resolver (util.get_arg), the projection of a descriptor onto       *)
(* argparse (ArgparseArg.to_argparse), Radicli.parse and Radicli.run.      *)
(*                                                                         *)
(* Python values are records [t, e, v]: t is the runtime type, v the       *)
(* printed form of the value (of the elements, for a list), e the element  *)
(* type of a list.  Python types are records [tname, origin, args]:        *)
(* origin is what typing.get_origin returns, args what typing.get_args     *)
(* returns.  "None" in a string-valued field is Python's None.             *)
(***************************************************************************)
EXTENDS Integers, Sequences, FiniteSets, TLC

VARIABLES
  converters,   \* Radicli.converters : ordered pairs [key, val]
  extra_key,    \* Radicli.extra_key
  registry,     \* Radicli.registry : ordered dict, a sequence of Command
  closure,      \* the cli_wrapper closure command(...) returned: its name,
                \* its args dict and its allow_extra
  last          \* what the last call did: its inputs and its outcome

vars == <<converters, extra_key, registry, closure, last>>

-----------------------------------------------------------------------------
(* Values *)

NoneS == "None"

V(t, e, v) == [t |-> t, e |-> e, v |-> v]

Ellipsis == V("ellipsis", "", <<>>)
PyNone == V("NoneType", "", <<>>)
PyTrue == V("bool", "", <<"True">>)
PyFalse == V("bool", "", <<"False">>)
PyStr(s) == V("str", "", <<s>>)
PyInt(s) == V("int", "", <<s>>)

(* Types *)

T(tname, origin, args) == [tname |-> tname, origin |-> origin, args |-> args]

StrT == T("str", NoneS, <<>>)
IntT == T("int", NoneS, <<>>)
FloatT == T("float", NoneS, <<>>)
PathT == T("Path", NoneS, <<>>)
BoolT == T("bool", NoneS, <<>>)
NoneType == T("NoneType", NoneS, <<>>)
\* the value None in a field that holds a type or a callable
NoType == T(NoneS, NoneS, <<>>)
\* a class of the application: no origin, not a base type
Config == T("Config", NoneS, <<>>)
\* inspect.Parameter.empty, the annotation of an unannotated parameter
Empty == T("_empty", NoneS, <<>>)

Optional(t) == T("Optional", "Union", <<t, NoneType>>)
UnionOf(ts) == T("Union", "Union", ts)
ListOf(t) == T("List", "list", <<t>>)
IterableOf(t) == T("Iterable", "Iterable", <<t>>)
DictOf(k, w) == T("Dict", "dict", <<k, w>>)
LiteralOf(vs) == T("Literal", "Literal", vs)

\* a callable str -> value that is not a class: typing.get_origin gives None
Fn(fname) == T(fname, NoneS, <<>>)

\* type(x) for a value x
TypeOf(x) == T(x.t, NoneS, <<>>)

BASE_TYPES == <<StrT, IntT, FloatT, PathT>>

InSeq(x, s) == \E i \in 1..Len(s) : s[i] = x

\* the element of a one-element set
Only(S) == CHOOSE x \in S : TRUE

-----------------------------------------------------------------------------
(* util.Arg and util.ArgparseArg *)

Arg(option, short, help, converter) ==
  [option |-> option, short |-> short, help |-> help, converter |-> converter]

ArgDefault == Arg(NoneS, NoneS, NoneS, NoType)

NoChoices == <<>>

ArgparseArg(id, name, shorthand, type, default, action, choices, help) ==
  [id |-> id, name |-> name, shorthand |-> shorthand, type |-> type,
   default |-> default, action |-> action, choices |-> choices, help |-> help]

NullArg == ArgparseArg(NoneS, NoneS, NoneS, NoType, Ellipsis, NoneS, NoChoices, NoneS)

\* the outcome of a call: a value, or the exception it raised
Returned(val) == [exc |-> NoneS, val |-> val, earg |-> NoneS, eannot |-> NoType]
Raised(exc, earg, eannot) ==
  [exc |-> exc, val |-> NullArg, earg |-> earg, eannot |-> eannot]

\* the first of BASE_TYPES (in the order of BASE_TYPES) that occurs in args
find_base_type(args) ==
  LET hits == {j \in 1..Len(BASE_TYPES) : InSeq(BASE_TYPES[j], args)}
  IN IF hits = {} THEN StrT
     ELSE BASE_TYPES[CHOOSE j \in hits : \A k \in hits : j <= k]

get_type_name(arg_type) == arg_type.tname

SelectSeqNotNone(args) == SelectSeq(args, LAMBDA a : a # NoneType)

RECURSIVE get_arg(_, _, _, _, _, _, _)
get_arg(param, param_type, name, shorthand, help, default, skip_resolve) ==
  LET arg0 == ArgparseArg(param, name, shorthand, param_type, Ellipsis,
                          NoneS, NoChoices, help)
      arg == IF default # Ellipsis THEN [arg0 EXCEPT !.default = default] ELSE arg0
      origin == param_type.origin
      args == param_type.args
      arg_types == SelectSeqNotNone(args)
  IN IF skip_resolve THEN Returned(arg)
     ELSE IF InSeq(param_type, BASE_TYPES)
       THEN Returned([arg EXCEPT !.type = param_type])
     ELSE IF param_type = BoolT
       THEN Returned([arg EXCEPT !.type = NoType, !.default = PyFalse,
                                 !.action = "store_true"])
     ELSE IF origin = NoneS
       THEN Raised("UnsupportedTypeError", param, param_type)
     ELSE IF origin = "Literal" /\ Len(args) > 0
       THEN Returned([arg EXCEPT !.choices = args, !.type = TypeOf(args[1])])
     ELSE IF origin \in {"list", "Iterable"}
       THEN Returned([arg EXCEPT !.type = find_base_type(args),
                                 !.action = "append"])
     ELSE IF origin = "Union" /\ Len(arg_types) > 0
       THEN get_arg(param, arg_types[1], name, NoneS, help, default, FALSE)
     ELSE Raised("UnsupportedTypeError", param, param_type)

-----------------------------------------------------------------------------
(* Ordered dicts: sequences of [key, val] with distinct keys *)

Keys(d) == {d[i].key : i \in 1..Len(d)}

DictGet(d, k, dflt) ==
  IF k \in Keys(d) THEN d[CHOOSE i \in 1..Len(d) : d[i].key = k].val ELSE dflt

DictSetDefault(d, k, v) ==
  IF k \in Keys(d) THEN d ELSE Append(d, [key |-> k, val |-> v])

(* inspect.signature: a function is [fname, params, doc], a parameter      *)
(* [name, annotation, default]; ParamEmpty is inspect.Parameter.empty      *)

ParamEmpty == V("_empty", "", <<>>)

Param(name, annotation, default) ==
  [name |-> name, annotation |-> annotation, default |-> default]

ParamNames(f) == {f.params[i].name : i \in 1..Len(f.params)}

ParamOf(f, n) == f.params[CHOOSE i \in 1..Len(f.params) : f.params[i].name = n]

sig_types(f, n) == ParamOf(f, n).annotation

sig_defaults(f, n) ==
  IF ParamOf(f, n).default # ParamEmpty THEN ParamOf(f, n).default ELSE Ellipsis

\* the first loop of cli_wrapper: the closure's args dict after it
RECURSIVE fill_args(_, _, _)
fill_args(args, f, i) ==
  IF i > Len(f.params) THEN args
  ELSE fill_args(DictSetDefault(args, f.params[i].name, ArgDefault), f, i + 1)

Or(a, b) == IF a # NoType THEN a ELSE b

StrOr(a, b) == IF a # NoneS /\ a # "" THEN a ELSE b

\* resolve_param with a bool parameter keeping the default the function
\* declares
resolve_param_declared_default(convs, f, param, arg) ==
  IF param \notin ParamNames(f) THEN Raised("KeyError", param, NoType)
  ELSE
    LET converter == DictGet(convs, sig_types(f, param), arg.converter)
        arg_type == Or(converter, sig_types(f, param))
    IN Only({IF r.exc # NoneS THEN r
             ELSE Returned([r.val EXCEPT
                    !.help = "(" \o get_type_name(arg_type) \o ") " \o StrOr(r.val.help, ""),
                    !.default = IF arg_type = BoolT /\ sig_defaults(f, param) # Ellipsis
                                  THEN sig_defaults(f, param) ELSE @]) :
             r \in {get_arg(param, arg_type, arg.option, arg.short, arg.help,
                            sig_defaults(f, param), converter # NoType)}})

\* resolve_param with the override's converter taking precedence over the
\* converter table
resolve_param_override_first(convs, f, param, arg) ==
  IF param \notin ParamNames(f) THEN Raised("KeyError", param, NoType)
  ELSE
    LET converter == Or(arg.converter, DictGet(convs, sig_types(f, param), NoType))
        arg_type == Or(converter, sig_types(f, param))
    IN Only({IF r.exc # NoneS THEN r
             ELSE Returned([r.val EXCEPT !.help =
                    "(" \o get_type_name(arg_type) \o ") " \o StrOr(r.val.help, "")]) :
             r \in {get_arg(param, arg_type, arg.option, arg.short, arg.help,
                            sig_defaults(f, param), converter # NoType)}})

\* the body of the second loop of cli_wrapper, for the entry (param, arg)
resolve_param(convs, f, param, arg) ==
  IF param \notin ParamNames(f) THEN Raised("KeyError", param, NoType)
  ELSE
    LET converter == DictGet(convs, sig_types(f, param), arg.converter)
        arg_type == Or(converter, sig_types(f, param))
    IN Only({IF r.exc # NoneS THEN r
             ELSE Returned([r.val EXCEPT !.help =
                    "(" \o get_type_name(arg_type) \o ") " \o StrOr(r.val.help, "")]) :
             r \in {get_arg(param, arg_type, arg.option, arg.short, arg.help,
                            sig_defaults(f, param), converter # NoType)}})

\* the second loop of cli_wrapper: the descriptors, or the first exception
RECURSIVE resolve_all(_, _, _, _, _)
resolve_all(convs, f, args, i, cli_args) ==
  IF i > Len(args)
    THEN [exc |-> NoneS, cli_args |-> cli_args, earg |-> NoneS, eannot |-> NoType]
  ELSE
    Only({IF r.exc # NoneS
            THEN [exc |-> r.exc, cli_args |-> <<>>, earg |-> r.earg, eannot |-> r.eannot]
          ELSE resolve_all(convs, f, args, i + 1, Append(cli_args, r.val)) :
          r \in {resolve_param(convs, f, args[i].key, args[i].val)}})

Command(name, func, args, description, allow_extra) ==
  [name |-> name, func |-> func, args |-> args, description |-> description,
   allow_extra |-> allow_extra]

Names(reg) == {reg[i].name : i \in 1..Len(reg)}

\* catalogue's register: the last registration under a name wins
register(reg, cmd) ==
  IF cmd.name \in Names(reg)
    THEN [i \in 1..Len(reg) |-> IF reg[i].name = cmd.name THEN cmd ELSE reg[i]]
  ELSE Append(reg, cmd)

\* cli_wrapper(cli_func) of the closure b = [name, args, allow_extra]:
\* the closure's args after the call, the registry after it, the outcome
cli_wrapper(b, cli_func, convs, reg) ==
  Only({[args |-> args,
         registry |-> IF r.exc = NoneS
                        THEN register(reg, Command(b.name, cli_func, r.cli_args,
                                                   cli_func.doc, b.allow_extra))
                      ELSE reg,
         exc |-> r.exc, earg |-> r.earg, eannot |-> r.eannot,
         cli_args |-> r.cli_args] :
        <<args, r>> \in {<<a, resolve_all(convs, cli_func, a, 1, <<>>)>> :
                          a \in {fill_args(b.args, cli_func, 1)}}})

-----------------------------------------------------------------------------
(* ArgparseArg.to_argparse and the argparse calls of Radicli.parse          *)

Truthy(str) == str # NoneS /\ str # ""

\* a keyword argument left out of kwargs
Absent == V("absent", "", <<>>)

to_argparse(self) ==
  [args |-> (IF Truthy(self.name) THEN <<self.name>> ELSE <<>>)
            \o (IF Truthy(self.shorthand) THEN <<self.shorthand>> ELSE <<>>),
   dest |-> self.id,
   action |-> self.action,
   help |-> self.help,
   default |-> IF self.default # Ellipsis THEN self.default ELSE Absent,
   nargs |-> IF ~Truthy(self.name) /\ self.default # Ellipsis THEN "?" ELSE NoneS,
   type |-> self.type,
   choices |-> self.choices]

\* the tokens argparse reads as option strings: they start with "-"
OptionLike == {"--a", "-a", "--b", "-b", "--_extra", "--zz"}

\* the tokens int() accepts
IntLike == {"1", "2"}

\* ArgumentParser.add_argument(*args, **kwargs): the action it builds, or
\* the exception of the action class's constructor
add_argument(kw) ==
  IF kw.action = "store_true" /\ kw.nargs # NoneS
    THEN [exc |-> "TypeError", dest |-> kw.dest]
  ELSE [exc |-> NoneS,
        dest |-> kw.dest,
        opts |-> kw.args,
        kind |-> IF kw.action = NoneS THEN "store" ELSE kw.action,
        nargs |-> IF kw.action = "store_true" THEN "0" ELSE kw.nargs,
        type |-> kw.type,
        default |-> IF kw.action = "store_true" /\ kw.default = Absent THEN PyFalse
                    ELSE IF kw.default = Absent THEN PyNone ELSE kw.default,
        choices |-> kw.choices,
        required |-> kw.args = <<>> /\ kw.nargs # "?"]

\* the type function applied to one token: the value, or a ValueError
Convert(type, tok) ==
  IF type = NoType \/ type = StrT THEN [ok |-> TRUE, val |-> PyStr(tok)]
  ELSE IF type = IntT
    THEN [ok |-> tok \in IntLike, val |-> PyInt(tok)]
  ELSE IF type = FloatT
    THEN [ok |-> tok \in IntLike, val |-> V("float", "", <<tok \o ".0">>)]
  ELSE [ok |-> TRUE, val |-> V(type.tname, "", <<tok>>)]

\* ArgumentParser._get_value followed by _check_value
get_value(action, tok) ==
  LET c == Convert(action.type, tok)
  IN IF ~c.ok THEN c
     ELSE [ok |-> action.choices = NoChoices \/ InSeq(c.val, action.choices),
           val |-> c.val]

\* the action classes' __call__: the namespace attribute after it
call_action(action, current, value) ==
  IF action.kind = "store" THEN [ok |-> TRUE, val |-> value]
  ELSE IF action.kind = "store_true" THEN [ok |-> TRUE, val |-> PyTrue]
  ELSE \* append: _copy_items(getattr(namespace, dest)), then items.append
    IF current = PyNone
      THEN [ok |-> TRUE, val |-> V("list", value.t, IF value = PyNone THEN <<NoneS>> ELSE value.v)]
    ELSE IF current.t = "list"
      THEN [ok |-> TRUE, val |-> V("list", value.t,
                          current.v \o (IF value = PyNone THEN <<NoneS>> ELSE value.v))]
    ELSE [ok |-> FALSE, val |-> current]

\* take_action of _parse_known_args, on the parse state st
take_action(st, action, arg_strings) ==
  LET values == IF arg_strings = <<>> /\ action.nargs = "?"
                  THEN LET d == IF action.opts # <<>> THEN PyNone ELSE action.default
                       IN IF d.t = "str" THEN get_value(action, d.v[1])
                          ELSE [ok |-> TRUE, val |-> d]
                ELSE IF Len(arg_strings) = 1 THEN get_value(action, arg_strings[1])
                ELSE [ok |-> TRUE, val |-> PyNone]
  IN Only({IF ~g.ok THEN [st EXCEPT !.exc = "SystemExit"]
           ELSE Only({IF ~c.ok THEN [st EXCEPT !.exc = "AttributeError"]
                      ELSE [st EXCEPT !.ns = [@ EXCEPT ![action.dest] = c.val],
                                      !.seen = @ \cup {action.dest}] :
                      c \in {call_action(action, st.ns[action.dest], g.val)}}) :
           g \in {values}})

\* how many tokens from index i on are arguments ('A' in the pattern string)
RECURSIVE leading_args(_, _)
leading_args(tokens, i) ==
  IF i > Len(tokens) \/ tokens[i] \in OptionLike THEN 0
  ELSE 1 + leading_args(tokens, i + 1)

Required(pos, k) == Cardinality({j \in 1..k : pos[j].nargs # "?"})

\* _match_arguments_partial: the longest prefix of the positionals whose
\* pattern matches, and how many tokens each of them takes (greedy)
match_partial_len(pos, n) ==
  LET ks == {k \in 0..Len(pos) : Required(pos, k) <= n}
  IN CHOOSE k \in ks : \A m \in ks : m <= k

RECURSIVE consume_positionals_from(_, _, _, _, _)
consume_positionals_from(st, tokens, k, j, n) ==
  IF j > k \/ st.exc # NoneS
    THEN [st EXCEPT !.pos = SubSeq(@, k + 1, Len(@))]
  ELSE
    LET action == st.pos[j]
        later == Cardinality({m \in (j + 1)..k : st.pos[m].nargs # "?"})
        cnt == IF action.nargs # "?" THEN 1
               ELSE IF n - later >= 1 THEN 1 ELSE 0
    IN Only({consume_positionals_from([st1 EXCEPT !.i = @ + cnt], tokens, k, j + 1, n - cnt) :
             st1 \in {take_action(st, action, SubSeq(tokens, st.i, st.i + cnt - 1))}})

consume_positionals(st, tokens) ==
  LET n == leading_args(tokens, st.i)
      k == match_partial_len(st.pos, n)
  IN consume_positionals_from(st, tokens, k, 1, n)

OptionAction(actions, tok) ==
  {a \in {actions[j] : j \in 1..Len(actions)} : a.opts # <<>> /\ InSeq(tok, a.opts)}

consume_optional(st, tokens, actions) ==
  LET tok == tokens[st.i]
      found == OptionAction(actions, tok)
  IN IF found = {}
       THEN [st EXCEPT !.extras = Append(@, tok), !.i = @ + 1]
     ELSE
       LET action == CHOOSE a \in found : TRUE
           n == leading_args(tokens, st.i + 1)
           cnt == IF action.nargs = "0" THEN 0
                  ELSE IF action.nargs = "?" THEN (IF n >= 1 THEN 1 ELSE 0)
                  ELSE 1
       IN IF cnt > n THEN [st EXCEPT !.exc = "SystemExit"]
          ELSE [take_action(st, action, SubSeq(tokens, st.i + 1, st.i + cnt))
                  EXCEPT !.i = st.i + 1 + cnt]

OptionIndices(tokens) == {i \in 1..Len(tokens) : tokens[i] \in OptionLike}

\* the while loop of _parse_known_args and the two statements after it
RECURSIVE parse_loop(_, _, _)
parse_loop(st, tokens, actions) ==
  LET later == {i \in OptionIndices(tokens) : i >= st.i}
  IN IF st.exc # NoneS THEN st
     ELSE IF later = {}
       THEN Only({IF st1.exc # NoneS THEN st1
                  ELSE [st1 EXCEPT !.extras = @ \o SubSeq(tokens, st1.i, Len(tokens)),
                                   !.i = Len(tokens) + 1] :
                  st1 \in {consume_positionals(st, tokens)}})
     ELSE
       LET next == CHOOSE i \in later : \A m \in later : i <= m
       IN Only({IF st1.exc # NoneS THEN st1
                ELSE IF st1.i > st.i THEN parse_loop(st1, tokens, actions)
                ELSE parse_loop(
                       consume_optional(
                         IF st1.i \notin OptionIndices(tokens)
                           THEN [st1 EXCEPT !.extras = @ \o SubSeq(tokens, st1.i, next - 1),
                                            !.i = next]
                         ELSE st1,
                         tokens, actions),
                       tokens, actions) :
                st1 \in {IF st.i # next THEN consume_positionals(st, tokens) ELSE st}})

\* the defaults of the actions the tokens did not reach: a str default goes
\* through the type function
RECURSIVE finish_defaults(_, _, _)
finish_defaults(st, actions, j) ==
  IF j > Len(actions) \/ st.exc # NoneS THEN st
  ELSE
    LET a == actions[j]
        c == Convert(a.type, a.default.v[1])
    IN IF a.dest \in st.seen THEN finish_defaults(st, actions, j + 1)
       ELSE IF a.required THEN [st EXCEPT !.exc = "SystemExit"]
       ELSE IF a.default.t = "str" /\ st.ns[a.dest] = a.default
         THEN IF c.ok
                THEN finish_defaults([st EXCEPT !.ns = [@ EXCEPT ![a.dest] = c.val]],
                                     actions, j + 1)
              ELSE [st EXCEPT !.exc = "SystemExit"]
       ELSE finish_defaults(st, actions, j + 1)

\* ArgumentParser.parse_known_args(tokens) for the actions added
parse_known_args(actions, tokens) ==
  LET idx == 1..Len(actions)
      dests == {actions[j].dest : j \in idx}
      st0 == [i |-> 1,
              pos |-> SelectSeq(actions, LAMBDA a : a.opts = <<>>),
              ns |-> [d \in dests |->
                        actions[CHOOSE j \in idx : actions[j].dest = d].default],
              extras |-> <<>>, seen |-> {}, exc |-> NoneS]
  IN finish_defaults(parse_loop(st0, tokens, actions), actions, 1)

\* two actions with one option string: add_argument raises ArgumentError
Conflict(actions) ==
  \E i, j \in 1..Len(actions) :
    i < j /\ \E o \in 1..Len(actions[i].opts) : InSeq(actions[i].opts[o], actions[j].opts)

\* the loop of Radicli.parse without the test on the reserved key
projected_all(arg_info, key) == arg_info

\* the loop of Radicli.parse: the descriptors handed to add_argument
projected(arg_info, key) == SelectSeq(arg_info, LAMBDA arg : arg.id # key)

MapSeq(s, Op(_)) == [i \in 1..Len(s) |-> Op(s[i])]

ParseResult(exc, values) == [exc |-> exc, values |-> values]

Reverse(s) == [i \in 1..Len(s) |-> s[Len(s) + 1 - i]]

\* parse returning the unrecognized tokens last to first
parse_reversed_extra(args, arg_info, allow_extra, key) ==
  Only({
    IF \E j \in 1..Len(built) : built[j].exc # NoneS THEN ParseResult("TypeError", <<>>)
    ELSE IF Conflict(built) THEN ParseResult("ArgumentError", <<>>)
    ELSE Only({
      IF st.exc # NoneS THEN ParseResult(st.exc, <<>>)
      ELSE IF allow_extra
        THEN ParseResult(NoneS, (key :> V("list", "str", Reverse(st.extras))) @@ st.ns)
      ELSE IF st.extras # <<>> THEN ParseResult("SystemExit", <<>>)
      ELSE ParseResult(NoneS, st.ns) :
      st \in {parse_known_args(built, args)}}) :
    built \in {MapSeq(projected(arg_info, key),
                      LAMBDA arg : add_argument(to_argparse(arg)))}})

\* Radicli.parse(args, arg_info, allow_extra=...)
parse(args, arg_info, allow_extra, key) ==
  Only({
    IF \E j \in 1..Len(built) : built[j].exc # NoneS THEN ParseResult("TypeError", <<>>)
    ELSE IF Conflict(built) THEN ParseResult("ArgumentError", <<>>)
    ELSE Only({
      IF st.exc # NoneS THEN ParseResult(st.exc, <<>>)
      ELSE IF allow_extra
        THEN ParseResult(NoneS, (key :> V("list", "str", st.extras)) @@ st.ns)
      ELSE IF st.extras # <<>> THEN ParseResult("SystemExit", <<>>)
      ELSE ParseResult(NoneS, st.ns) :
      st \in {parse_known_args(built, args)}}) :
    built \in {MapSeq(projected(arg_info, key),
                      LAMBDA arg : add_argument(to_argparse(arg)))}})

-----------------------------------------------------------------------------
(* Radicli.run *)

\* cmd.func(**values): the call binds the keywords to the parameters first
call(func, values) ==
  LET need == {func.params[i].name : i \in
                 {j \in 1..Len(func.params) : func.params[j].default = ParamEmpty}}
  IN IF DOMAIN values \subseteq ParamNames(func) /\ need \subseteq DOMAIN values
       THEN NoneS ELSE "TypeError"

RunResult(steps, exc, values, called) ==
  [steps |-> steps, exc |-> exc, values |-> values, called |-> called]

\* run parsing the tokens (against the first registered command) before it
\* looks the command up
run_parse_first(argv, reg, key) ==
  IF Len(argv) = 0 \/ argv[1] = "--help"
    THEN RunResult(<<"help">>, NoneS, <<>>, NoneS)
  ELSE
    LET command == argv[1]
        args == SubSeq(argv, 2, Len(argv))
        first == IF reg = <<>> THEN <<>> ELSE reg[1].args
    IN Only({IF r.exc # NoneS THEN RunResult(<<"parse">>, r.exc, <<>>, NoneS)
             ELSE IF command \notin Names(reg)
               THEN RunResult(<<"parse", "lookup">>, "RegistryError", <<>>, NoneS)
             ELSE RunResult(<<"parse", "lookup", "call">>, NoneS, r.values, NoneS) :
             r \in {parse(args, first, FALSE, key)}})

\* Radicli.run() with sys.argv[1:] = argv: the steps it takes, in order,
\* and how it ends
run(argv, reg, key) ==
  IF Len(argv) = 0 \/ argv[1] = "--help"
    THEN RunResult(<<"help">>, NoneS, <<>>, NoneS)
  ELSE
    LET command == argv[1]
        args == SubSeq(argv, 2, Len(argv))
    IN IF command \notin Names(reg)
         THEN RunResult(<<"lookup">>, "RegistryError", <<>>, NoneS)
       ELSE
         LET cmd == reg[CHOOSE i \in 1..Len(reg) : reg[i].name = command]
         IN Only({IF r.exc # NoneS
                    THEN RunResult(<<"lookup", "parse">>, r.exc, <<>>, NoneS)
                  ELSE IF call(cmd.func, r.values) # NoneS
                    THEN RunResult(<<"lookup", "parse", "call">>, "TypeError", r.values, NoneS)
                  ELSE RunResult(<<"lookup", "parse", "call">>, NoneS, r.values,
                                 cmd.func.fname) :
                  r \in {parse(args, cmd.args, cmd.allow_extra, key)}})

-----------------------------------------------------------------------------
(* Inputs *)

\* the longest token list handed to parse or run
MaxTokens == 3

SeqsUpTo(S, n) == UNION {[1..m -> S] : m \in 0..n}

Distinct(s, Key(_)) == \A i, j \in 1..Len(s) : i # j => Key(s[i]) # Key(s[j])

\* the functions whose parameters are named from names, each name at most once
Funcs(names, annotations, defaults) ==
  {[fname |-> "f", params |-> ps, doc |-> NoneS] :
     ps \in {s \in SeqsUpTo([name : names, annotation : annotations, default : defaults],
                             Cardinality(names)) :
              Distinct(s, LAMBDA q : q.name)}}

\* the keyword arguments of command(name, **args), in the order written:
\* keys from names, the Arg of key k from ArgsFor(k)
Overrides(names, ArgsFor(_)) ==
  {s \in SeqsUpTo([key : names, val : UNION {ArgsFor(k) : k \in names}],
                  Cardinality(names)) :
     /\ Distinct(s, LAMBDA e : e.key)
     /\ \A i \in 1..Len(s) : s[i].val \in ArgsFor(s[i].key)}

-----------------------------------------------------------------------------
(* Operations *)

NoClosure == [name |-> NoneS, args |-> <<>>, allow_extra |-> FALSE, given |-> {}]

\* Radicli._command(name, args, allow_extra=...): the cli_wrapper closure it
\* returns.  given remembers the keys the caller wrote; the code never reads it.
new_command(name, args, allow_extra) ==
  /\ closure = NoClosure
  /\ closure' = [name |-> name, args |-> args, allow_extra |-> allow_extra,
                  given |-> Keys(args)]
  /\ last' = [op |-> "_command"]
  /\ UNCHANGED <<converters, extra_key, registry>>

\* Radicli.command(name, **args)
command(name, args) == new_command(name, args, FALSE)

\* Radicli.command_with_extra(name, **args)
command_with_extra(name, args) == new_command(name, args, TRUE)

\* cli_wrapper(cli_func): the closure applied to a function that has the
\* parameters the caller's keywords name
Decorate(cli_func) ==
  /\ closure # NoClosure
  /\ closure.given \subseteq ParamNames(cli_func)
  /\ \E r \in {cli_wrapper(closure, cli_func, converters, registry)} :
       /\ closure' = [closure EXCEPT !.args = r.args]
       /\ registry' = r.registry
       /\ last' = [op |-> "cli_wrapper", func |-> cli_func, args |-> closure.args,
                    exc |-> r.exc, earg |-> r.earg, eannot |-> r.eannot,
                    cli_args |-> r.cli_args]
  /\ UNCHANGED <<converters, extra_key>>

\* Radicli.parse(args, cmd.args, allow_extra=cmd.allow_extra), called directly
Parse(args, cmd) ==
  /\ \E r \in {parse(args, cmd.args, cmd.allow_extra, extra_key)} :
       last' = [op |-> "parse", args |-> args, cmd |-> cmd,
                exc |-> r.exc, values |-> r.values]
  /\ UNCHANGED <<converters, extra_key, registry, closure>>

\* Radicli.run() under sys.argv = [prog] + argv
Run(argv) ==
  /\ \E r \in {run(argv, registry, extra_key)} :
       last' = [op |-> "run", argv |-> argv, steps |-> r.steps, exc |-> r.exc,
                values |-> r.values, called |-> r.called]
  /\ UNCHANGED <<converters, extra_key, registry, closure>>

-----------------------------------------------------------------------------
(* Registration: one decorator, applied to one function after another *)

ConverterTable == <<[key |-> Config, val |-> Fn("load_config")],
                    [key |-> IntT, val |-> Fn("parse_int")]>>

RegNames == {"a", "b"}
RegTypes == {StrT, IntT, Config, DictOf(StrT, IntT)}
RegFuncs == Funcs(RegNames, RegTypes, {ParamEmpty})

\* Arg(), Arg("--k", "-k", help="help"), Arg("--k", converter=custom)
RegArgsFor(k) ==
  {ArgDefault,
   Arg("--" \o k, "-" \o k, "help", NoType),
   Arg("--" \o k, NoneS, NoneS, Fn("custom"))}

RegOverrides == Overrides(RegNames, RegArgsFor)

Init ==
  /\ converters \in {<<>>, ConverterTable}
  /\ extra_key = "_extra"
  /\ registry = <<>>
  /\ closure = NoClosure
  /\ last = [op |-> "init"]

Next ==
  \/ \E args \in RegOverrides : command("run", args)
  \/ \E args \in RegOverrides : command_with_extra("run", args)
  \/ \E f \in RegFuncs : Decorate(f)

Spec == Init /\ [][Next]_vars

-----------------------------------------------------------------------------
(* Parsing: one function is registered, one token list is parsed against it *)

ParseNames == {"a", "b"}

\* a single parameter of any resolvable type, with any default
WideTypes == {StrT, IntT, BoolT, Optional(StrT), ListOf(IntT),
              LiteralOf(<<PyStr("x"), PyStr("y")>>)}
WideDefaults == {ParamEmpty, PyNone, PyStr("x"), PyTrue}

\* one or two parameters, a positional or flagged value and a flag, declared
\* a before b (the overrides still name them in either order)
NarrowTypes == {IntT, BoolT}
NarrowDefaults == {ParamEmpty}

ParseFuncs == Funcs({"a"}, WideTypes, WideDefaults)
              \cup {f \in Funcs(ParseNames, NarrowTypes, NarrowDefaults) :
                      Len(f.params) = 2 => f.params[1].name = "a"}

\* Arg(), Arg("--k", "-k", help="help"), Arg("--k", converter=custom)
ParseArgsFor(k) ==
  {ArgDefault,
   Arg("--" \o k, "-" \o k, "help", NoType),
   Arg("--" \o k, NoneS, NoneS, Fn("custom"))}

ParseOverrides == Overrides(ParseNames, ParseArgsFor)

ParseTokens == {"1", "x", "--a", "--b", "--zz"}

InitParse ==
  /\ converters = <<>>
  /\ extra_key \in {"_extra", "b"}
  /\ registry = <<>>
  /\ closure = NoClosure
  /\ last = [op |-> "init"]

NextParse ==
  \/ \E args \in ParseOverrides : command("run", args)
  \/ \E args \in ParseOverrides : command_with_extra("run", args)
  \/ registry = <<>> /\ \E f \in ParseFuncs : Decorate(f)
  \/ /\ last.op # "parse"
     /\ \E i \in 1..Len(registry), args \in SeqsUpTo(ParseTokens, MaxTokens) :
          Parse(args, registry[i])

SpecParse == InitParse /\ [][NextParse]_vars

-----------------------------------------------------------------------------
(* Dispatch: functions are registered under one name, then run() is called *)

RunFuncs == Funcs({"a"}, {StrT, IntT, BoolT}, {ParamEmpty, PyNone})
RunArgsFor(k) == {ArgDefault, Arg("--" \o k, NoneS, NoneS, NoType)}
RunOverrides == Overrides({"a"}, RunArgsFor)
RunArgv == {<<"--help">>} \cup SeqsUpTo({"run", "build", "1", "--a"}, MaxTokens)

NextRun ==
  \/ \E n \in {"run", "build"}, args \in RunOverrides : command(n, args)
  \/ \E n \in {"run", "build"}, args \in RunOverrides : command_with_extra(n, args)
  \/ \E f \in RunFuncs : Decorate(f)
  \/ last.op # "run" /\ \E argv \in RunArgv : Run(argv)

SpecRun == Init /\ [][NextRun]_vars

-----------------------------------------------------------------------------
(* Properties of registration *)

Ids(cli_args) == [i \in 1..Len(cli_args) |-> cli_args[i].id]

DeclaredNames(f) == [i \in 1..Len(f.params) |-> f.params[i].name]

Registered(n) == registry[CHOOSE i \in 1..Len(registry) : registry[i].name = n]

\* C1: after a registration, the registered Command's args hold exactly one
\* descriptor per parameter of the function, in the declared parameter order.
C1_DeclaredOrder ==
  (last.op = "cli_wrapper" /\ last.exc = NoneS) =>
     /\ closure.name \in Names(registry)
     /\ Registered(closure.name).func = last.func
     /\ Ids(Registered(closure.name).args) = DeclaredNames(last.func)

\* the args dict of the closure as the caller wrote it
Written(cl, args) == SelectSeq(args, LAMBDA e : e.key \in cl.given)

\* C10: applying a closure to a function f does not change what a later
\* application of it to g does: g gets the outcome and the descriptors it
\* gets from the closure as command(...) returned it.
C10_NoCarryOver ==
  last.op = "cli_wrapper" =>
     LET alone == cli_wrapper([closure EXCEPT !.args = Written(closure, last.args)],
                              last.func, converters, <<>>)
     IN /\ last.exc = alone.exc
        /\ last.cli_args = alone.cli_args

\* the Arg that cli_wrapper uses for parameter n, given the closure's args
OverrideOf(args, n) == DictGet(args, n, ArgDefault)

\* C7: a parameter whose declared type is a key of the converter table is
\* resolved in skip-resolve mode: its descriptor's type is the table's
\* converter (also when the override has a converter of its own), nothing
\* else of the descriptor comes from the declared type, and the parameter
\* never raises UnsupportedTypeError.
C7_TableConverterWins ==
  last.op = "cli_wrapper" =>
     /\ \A i \in 1..Len(last.cli_args) :
          LET d == last.cli_args[i]
              t == sig_types(last.func, d.id)
          IN t \in Keys(converters) =>
               /\ d.type = DictGet(converters, t, NoType)
               /\ d.action = NoneS
               /\ d.choices = NoChoices
               /\ d.default = sig_defaults(last.func, d.id)
     /\ last.exc = NoneS => Registered(closure.name).args = last.cli_args
     /\ last.exc = "UnsupportedTypeError" =>
          sig_types(last.func, last.earg) \notin Keys(converters)

\* a registered parameter of a type no structural rule resolves, with a
\* converter of its own on the override, resolved through the table
C7_Witness ==
  /\ last.op = "cli_wrapper"
  /\ last.exc = NoneS
  /\ \E i \in 1..Len(last.cli_args) :
       /\ sig_types(last.func, last.cli_args[i].id) = Config
       /\ OverrideOf(last.args, last.cli_args[i].id).converter = Fn("custom")
       /\ last.cli_args[i].type = Fn("load_config")

\* the declared types the resolver handles: a primitive, bool, a non-empty
\* literal, a sequence, a union with a variant other than None
Handled(t) ==
  \/ InSeq(t, BASE_TYPES)
  \/ t = BoolT
  \/ t.origin = "Literal" /\ Len(t.args) > 0
  \/ t.origin \in {"list", "Iterable"}
  \/ t.origin = "Union" /\ \E i \in 1..Len(t.args) : t.args[i] # NoneType

\* the parameters of f of an unhandled type to which no converter applies
UnsupportedParams(f, args, convs) ==
  {q \in {f.params[i] : i \in 1..Len(f.params)} :
     /\ ~Handled(q.annotation)
     /\ q.annotation \notin Keys(convs)
     /\ OverrideOf(args, q.name).converter = NoType}

\* C8: when a parameter of the function has an unhandled type and no
\* converter applies, the registration call raises UnsupportedTypeError
\* with that parameter's name and type, and the registry is left as it was.
C8_UnsupportedRaises ==
  [][(last'.op = "cli_wrapper"
        /\ UnsupportedParams(last'.func, last'.args, converters) # {})
      => /\ last'.exc = "UnsupportedTypeError"
         /\ \E q \in UnsupportedParams(last'.func, last'.args, converters) :
               last'.earg = q.name /\ last'.eannot = q.annotation
         /\ registry' = registry]_vars

\* C9: run looks the command up before anything else: for a name that is
\* not registered it ends at the lookup with RegistryError, without
\* parsing and without calling a function.
C9_LookupBeforeParse ==
  (last.op = "run" /\ Len(last.argv) > 0 /\ last.argv[1] # "--help") =>
     /\ last.steps[1] = "lookup"
     /\ last.argv[1] \notin Names(registry) =>
          /\ last.steps = <<"lookup">>
          /\ last.exc = "RegistryError"
          /\ last.called = NoneS

\* run with tokens after a name that is not registered, while another name is
C9_Witness ==
  /\ last.op = "run"
  /\ Len(last.argv) > 1
  /\ registry # <<>>
  /\ last.argv[1] \notin Names(registry) \cup {"--help"}
  /\ last.exc = "RegistryError"

-----------------------------------------------------------------------------
(* Properties of resolution and parsing, stated for SpecParse *)

\* the fields of a descriptor other than its help text
Fields(d) == [id |-> d.id, name |-> d.name, shorthand |-> d.shorthand,
              type |-> d.type, default |-> d.default, action |-> d.action,
              choices |-> d.choices]

\* C2: a parameter declared Optional[str] resolves to the same descriptor
\* (id, name, shorthand, type, default, action, choices) as the same
\* parameter declared str, for every override and every default.
C2_OptionalLikeInner ==
  last.op = "cli_wrapper" =>
     \A i \in 1..Len(last.cli_args) :
       LET d == last.cli_args[i]
           o == OverrideOf(last.args, d.id)
       IN (sig_types(last.func, d.id) = Optional(StrT) /\ o.converter = NoType) =>
            Fields(d) = Fields(get_arg(d.id, StrT, o.option, o.short, o.help,
                                       sig_defaults(last.func, d.id), FALSE).val)

\* the option strings of a descriptor
OptionStrings(d) == {x \in {d.name, d.shorthand} : Truthy(x)}

\* the token list gives nothing for the descriptor: none of its option
\* strings if it has one, no word at all if it is positional
Omits(tokens, d) ==
  IF OptionStrings(d) # {}
    THEN \A k \in 1..Len(tokens) : tokens[k] \notin OptionStrings(d)
  ELSE \A k \in 1..Len(tokens) : tokens[k] \in OptionLike

\* C3: for a parameter that is not a bool, positional or flagged: with no
\* declared default the descriptor carries the "no default" sentinel and a
\* token list that omits the argument is a parse error; with a declared
\* default of None the descriptor's default is None and omitting the
\* argument yields None.
C3_RequiredOrOptional ==
  last.op = "parse" =>
     \A i \in 1..Len(last.cmd.args) :
       LET d == last.cmd.args[i]
           q == ParamOf(last.cmd.func, d.id)
       IN (d.id # extra_key /\ q.annotation # BoolT) =>
            /\ q.default = ParamEmpty =>
                 /\ d.default = Ellipsis
                 /\ Omits(last.args, d) => last.exc # NoneS
            /\ q.default = PyNone =>
                 /\ d.default = PyNone
                 /\ (Omits(last.args, d) /\ last.exc = NoneS) =>
                      last.values[d.id] = PyNone

RECURSIVE IsSubseq(_, _)
\* s can be had from t by deleting elements
IsSubseq(s, t) ==
  IF s = <<>> THEN TRUE
  ELSE IF t = <<>> THEN FALSE
  ELSE IF Head(s) = Head(t) THEN IsSubseq(Tail(s), Tail(t))
  ELSE IsSubseq(s, Tail(t))

\* the option strings of the grammar built for a command
Grammar(cmd) ==
  UNION {OptionStrings(projected(cmd.args, extra_key)[i]) :
           i \in 1..Len(projected(cmd.args, extra_key))}

\* a token written as a flag that the grammar of the command does not have
UnknownFlag(cmd, tok) == tok \in OptionLike /\ tok \notin Grammar(cmd)

UnknownFlags(cmd, tokens) == SelectSeq(tokens, LAMBDA tok : UnknownFlag(cmd, tok))

\* the longest K for which tokens = K \o (unknown flags only)
RECURSIVE Known(_, _)
Known(cmd, tokens) ==
  IF tokens # <<>> /\ UnknownFlag(cmd, tokens[Len(tokens)])
    THEN Known(cmd, SubSeq(tokens, 1, Len(tokens) - 1))
  ELSE tokens

\* C4: with allow_extra the unrecognized tokens come back under the
\* reserved key in their original order, next to the recognized values,
\* and tokens that parse without them still parse with them; without
\* allow_extra the same tokens are a fatal error whenever one of them is
\* unrecognized.
C4_ExtraTokens ==
  last.op = "parse" =>
     LET cmd == last.cmd
         ids == {projected(cmd.args, extra_key)[i].id :
                   i \in 1..Len(projected(cmd.args, extra_key))}
     IN /\ (cmd.allow_extra /\ last.exc = NoneS) =>
             \E strict \in {parse(last.args, cmd.args, FALSE, extra_key)} :
               LET extra == last.values[extra_key].v
               IN /\ DOMAIN last.values = ids \cup {extra_key}
                  /\ IsSubseq(extra, last.args)
                  /\ UnknownFlags(cmd, extra) = UnknownFlags(cmd, last.args)
                  /\ IF extra = <<>>
                       THEN /\ strict.exc = NoneS
                            /\ \A k \in ids : strict.values[k] = last.values[k]
                       ELSE strict.exc = "SystemExit"
        /\ cmd.allow_extra =>
             \E known \in {parse(Known(cmd, last.args), cmd.args, FALSE, extra_key)} :
               known.exc = NoneS =>
                 /\ last.exc = NoneS
                 /\ last.values[extra_key].v = UnknownFlags(cmd, last.args)
                 /\ \A k \in ids : last.values[k] = known.values[k]
        /\ ~cmd.allow_extra =>
             /\ UnknownFlags(cmd, last.args) # <<>> => last.exc # NoneS
             /\ \E lenient \in {parse(last.args, cmd.args, TRUE, extra_key)} :
                  (lenient.exc = NoneS /\ lenient.values[extra_key].v # <<>>) =>
                     last.exc = "SystemExit"

\* sum(a: int) registered with command_with_extra, parsing ["1", "--zz", "x"]
C4_Witness ==
  /\ last.op = "parse"
  /\ last.cmd.allow_extra
  /\ last.args = <<"1", "--zz", "x">>
  /\ last.exc = NoneS
  /\ "a" \in DOMAIN last.values
  /\ last.values["a"] = PyInt("1")
  /\ last.values[extra_key] = V("list", "str", <<"--zz", "x">>)

\* C5: no descriptor whose id is the reserved key reaches the grammar, so
\* its option string is an unrecognized token, and the key is in the
\* result exactly when allow_extra is true, also when the function has a
\* parameter of that name.
C5_ReservedKey ==
  last.op = "parse" =>
     LET cmd == last.cmd
         grammar == MapSeq(projected(cmd.args, extra_key), to_argparse)
     IN /\ \A i \in 1..Len(grammar) : grammar[i].dest # extra_key
        /\ last.exc = NoneS =>
             /\ extra_key \in DOMAIN last.values <=> cmd.allow_extra
             /\ cmd.allow_extra => last.values[extra_key].t = "list"
        /\ \A i \in 1..Len(cmd.args), k \in 1..Len(last.args) :
             (cmd.args[i].id = extra_key /\ last.args[k] \in OptionStrings(cmd.args[i])
                /\ last.args[k] \notin Grammar(cmd)) =>
               IF cmd.allow_extra
                 THEN last.exc = NoneS =>
                        \E e \in 1..Len(last.values[extra_key].v) :
                          last.values[extra_key].v[e] = last.args[k]
               ELSE last.exc # NoneS

\* a successful parse without allow_extra for a function that has a
\* parameter named like the reserved key
C5_Witness ==
  /\ last.op = "parse"
  /\ ~last.cmd.allow_extra
  /\ extra_key \in ParamNames(last.cmd.func)
  /\ last.exc = NoneS
  /\ last.args # <<>>
  /\ extra_key \notin DOMAIN last.values

\* the descriptor comes from a bool parameter with no converter
BoolParam(f, args, d) ==
  /\ sig_types(f, d.id) = BoolT
  /\ DictGet(converters, BoolT, OverrideOf(args, d.id).converter) = NoType

====
